---- MODULE Spec2Model ----
(***************************************************************************)
(* The bridge's WithdrawRelay (bridge/src/bridge/withdraw_relay.rs) as a   *)
(* state machine: the relay's poll loop over its states Wait, Fetch,       *)
(* RelayWithdraws and Yield, the confirmed log stream it reads, the RPC    *)
(* endpoint's answers, and the supervisor that persists each emitted      *)
(* block in the database and re-creates the relay after a failure.        *)
(***************************************************************************)
EXTENDS Integers, Sequences, FiniteSets, TLC

(***************************************************************************)
(* Bounds and configuration                                                *)
(***************************************************************************)

\* Largest chain head eth_blockNumber answers with.
MaxHead == 3

\* config.testnet.required_confirmations
Confirmations == 1

\* config.authorities.required_signatures
RequiredSignatures == 1

\* How many times the supervisor re-creates a relay.
MaxRestarts == 2

\* The last block a log stream can ever be asked for.
MaxBlock == MaxHead - Confirmations

Blocks == 1..MaxBlock

\* The authority nodes; node n runs with config.testnet.account = Account[n].
Nodes == {1, 2}

Account == [n \in Nodes |-> IF n = 1 THEN "a1" ELSE "a2"]

\* The rest of a node's configuration: the mainnet account and the gas of
\* each relay's transactions (testnet.account is node 1's).
Config ==
    [mainnet |-> [account |-> "mainnet_account"],
     testnet |-> [account |-> Account[1]],
     txs |-> [deposit_relay |-> [gas |-> 253, gas_price |-> 160],
              withdraw_relay |-> [gas |-> 252, gas_price |-> 159],
              withdraw_confirm |-> [gas |-> 254, gas_price |-> 161]]]

\* What a block of the testnet chain holds for the CollectedSignatures
\* filter: no log, a log naming an authority, or a log that does not parse.
LogKinds == {"none", "bad", "a1", "a2"}

VARIABLES
    chain,      \* block -> what the block holds (the testnet chain)
    nodes,      \* the nodes that were started
    database,   \* node -> the persisted Database
    proc,       \* node -> "up" or "down": whether the relay exists
    logs,       \* node -> WithdrawRelay.logs, the LogStream
    state,      \* node -> WithdrawRelay.state
    ret,        \* node -> what the last poll returned
    item,       \* node -> the block the supervisor got and has not persisted
    boot,       \* node -> the checkpoint the relay was created from
    restarts,   \* node -> how many times the relay was re-created
    batches,    \* node -> the batches the LogStream instance delivered
    eth_calls,  \* node -> message_hash -> eth_call requests this relay issued
    eth_calls_ok, \* node -> message_hash -> those of them the endpoint answered
    txs,        \* node -> message_hash -> eth_sendTransaction requests this relay issued
    txs_ok,     \* node -> message_hash -> those of them the endpoint accepted
    past,       \* node -> the message_hashes the node's earlier relays sent a
                \* transaction for (txs), and those accepted (txs_ok)
    input,      \* the arguments of a function called on its own
    output,     \* what the function returned
    events,     \* filter -> block -> what the block holds for the Deposit
                \* filter (mainnet chain) and the Withdraw filter (testnet chain)
    other,      \* relay name -> the node's DepositRelay and WithdrawConfirm
    failed      \* node -> the to of the first batch poll of the relay
                \* returned an error for

vars == <<chain, nodes, database, proc, logs, state, ret, item, boot,
          restarts, batches, eth_calls, eth_calls_ok, txs, txs_ok, past,
          input, output, events, other, failed>>

None == [some |-> FALSE, v |-> 0]
Some(x) == [some |-> TRUE, v |-> x]

(***************************************************************************)
(* The log of a block, and what eth_getLogs answers for a range             *)
(***************************************************************************)

\* A CollectedSignatures log: its message_hash is the block's number (one
\* log per block), its authority the account the block names.
LogOf(b) == [message_hash |-> b, authority |-> chain[b], parses |-> chain[b] # "bad"]

\* A Deposit or Withdraw log: recipient and value in its data, and the hash
\* of the transaction that emitted it (one log per block).
EventOf(filter, b) ==
    [recipient |-> "recipient", value |-> 240, transaction_hash |-> b,
     parses |-> events[filter][b] # "bad"]

\* eth_getLogs for the filter and the inclusive range from..to.
RECURSIVE GetLogs(_, _, _)
GetLogs(filter, from, to) ==
    IF from > to THEN <<>>
    ELSE (IF filter = "collected_signatures"
          THEN (IF chain[from] = "none" THEN <<>> ELSE <<LogOf(from)>>)
          ELSE (IF events[filter][from] = "none" THEN <<>>
                ELSE <<EventOf(filter, from)>>))
         \o GetLogs(filter, from + 1, to)

(***************************************************************************)
(* api::LogStream                                                          *)
(***************************************************************************)

\* api::log_stream(transport, timer, init): the stream starts by asking for
\* the head, with last_checked = init.after.
log_stream(init) ==
    [after |-> init.after, confirmations |-> init.confirmations,
     filter |-> init.filter, last_checked |-> init.after, stage |-> "awaitHead", st |-> "pending",
     head |-> 0, from |-> 0, to |-> 0]

NoBatch == [from |-> 0, to |-> 0, logs |-> <<>>, head |-> 0]

\* awaitHead: the head confirms no block after last_checked yet.
LogStream_too_early(s) == s.head < s.last_checked + s.confirmations + 1

LogStream_request_unconfirmed(s) ==
    [s EXCEPT !.stage = "awaitLogs", !.st = "pending",
              !.from = s.last_checked + 1, !.to = s.head]

\* awaitHead: from = last_checked + 1, to = head - confirmations, and the
\* eth_getLogs request for that range goes out.
LogStream_request(s) ==
    [s EXCEPT !.stage = "awaitLogs", !.st = "pending",
              !.from = s.last_checked + 1, !.to = s.head - s.confirmations]

LogStream_delivered_stale(s) ==
    [s EXCEPT !.stage = "awaitHead", !.st = "pending",
              !.head = 0, !.from = 0, !.to = 0]

\* awaitLogs: the batch is yielded, last_checked = to, back to awaitHead.
LogStream_delivered(s) ==
    [s EXCEPT !.stage = "awaitHead", !.st = "pending",
              !.head = 0, !.from = 0, !.to = 0, !.last_checked = s.to]

\* LogStream::poll: what the stream becomes and what it returns.
LogStream_poll(s) ==
    CASE s.st = "pending" -> [s |-> s, ret |-> "NotReady", item |-> NoBatch]
      [] s.st = "err" -> [s |-> s, ret |-> "Err", item |-> NoBatch]
      [] s.st = "ok" /\ s.stage = "awaitHead" ->
           IF LogStream_too_early(s)
           THEN [s |-> [s EXCEPT !.stage = "sleep", !.st = "pending", !.head = 0],
                 ret |-> "NotReady", item |-> NoBatch]
           ELSE [s |-> LogStream_request(s), ret |-> "NotReady", item |-> NoBatch]
      [] s.st = "ok" /\ s.stage = "sleep" ->
           [s |-> [s EXCEPT !.stage = "awaitHead", !.st = "pending"],
            ret |-> "NotReady", item |-> NoBatch]
      [] s.st = "ok" /\ s.stage = "awaitLogs" ->
           [s |-> LogStream_delivered(s),
            ret |-> "Ready",
            item |-> [from |-> s.from, to |-> s.to,
                      logs |-> GetLogs(s.filter, s.from, s.to), head |-> s.head]]

(***************************************************************************)
(* signatures_payload and withdraw_relay_payload                           *)
(***************************************************************************)

\* testnet.functions().message().input(message_hash)
message_input(message_hash) == [fn |-> "message", message_hash |-> message_hash]

\* testnet.functions().signature().input(message_hash, index)
signature_input(message_hash, index) ==
    [fn |-> "signature", message_hash |-> message_hash, index |-> index]

\* ethabi::util::pad_u32(value): the u32 in the last four bytes of a 32-byte
\* word, most significant byte first.
pad_u32(value) ==
    [k \in 1..32 |->
        CASE k = 29 -> (value \div 16777216) % 256
          [] k = 30 -> (value \div 65536) % 256
          [] k = 31 -> (value \div 256) % 256
          [] k = 32 -> value % 256
          [] OTHER -> 0]

NoAssignment == [signature_payloads |-> <<>>, message_payload |-> message_input(0)]

Assignment_from_one(signatures, log) ==
    [signature_payloads |->
         [i \in 1..signatures |-> signature_input(log.message_hash, pad_u32(i))],
     message_payload |-> message_input(log.message_hash)]

Assignment_twice(signatures, log) ==
    [signature_payloads |->
         [i \in 1..(2 * signatures) |-> signature_input(log.message_hash, pad_u32(i - 1))],
     message_payload |-> message_input(log.message_hash)]

\* The assignment of a log that names this node: the call data of
\* signature(message_hash, pad_u32(index)) for index 0..signatures-1 and of
\* message(message_hash).
Assignment(signatures, log) ==
    [signature_payloads |->
         [i \in 1..signatures |-> signature_input(log.message_hash, pad_u32(i - 1))],
     message_payload |-> message_input(log.message_hash)]

signatures_payload_inverted(signatures, my_address, log) ==
    IF ~log.parses
    THEN [err |-> TRUE, some |-> FALSE, a |-> NoAssignment]
    ELSE IF log.authority = my_address
    THEN [err |-> FALSE, some |-> FALSE, a |-> NoAssignment]
    ELSE [err |-> FALSE, some |-> TRUE, a |-> Assignment(signatures, log)]

signatures_payload_everyone(signatures, my_address, log) ==
    IF ~log.parses
    THEN [err |-> TRUE, some |-> FALSE, a |-> NoAssignment]
    ELSE [err |-> FALSE, some |-> TRUE, a |-> Assignment(signatures, log)]

signatures_payload_first_only(signatures, my_address, log) ==
    IF ~log.parses
    THEN [err |-> TRUE, some |-> FALSE, a |-> NoAssignment]
    ELSE IF log.authority # my_address /\ log.message_hash > 1
    THEN [err |-> FALSE, some |-> FALSE, a |-> NoAssignment]
    ELSE [err |-> FALSE, some |-> TRUE, a |-> Assignment(signatures, log)]

\* signatures_payload(testnet, signatures, my_address, log): a parse error,
\* Ok(None) for a log that names another authority, or Ok(Some(assignment)).
signatures_payload(signatures, my_address, log) ==
    IF ~log.parses
    THEN [err |-> TRUE, some |-> FALSE, a |-> NoAssignment]
    ELSE IF log.authority # my_address
    THEN [err |-> FALSE, some |-> FALSE, a |-> NoAssignment]
    ELSE [err |-> FALSE, some |-> TRUE, a |-> Assignment(signatures, log)]

\* What the testnet contract stores: the 84-byte message with this hash,
\* and the 65-byte signature of it with this index.
StoredMessage(message_hash) == [k \in 1..84 |-> message_hash]
StoredSignature(message_hash, index) ==
    [k \in 1..65 |-> (16 * message_hash + index[32] + 1) % 256]

\* What an answered eth_call gave: the bytes the testnet contract stores
\* for the payload ("ok"), or bytes of another length ("short").
Fetched(c) ==
    LET bytes == IF c.payload.fn = "message"
                 THEN StoredMessage(c.payload.message_hash)
                 ELSE StoredSignature(c.payload.message_hash, c.payload.index)
    IN  IF c.st = "ok" THEN bytes ELSE Tail(bytes)

\* mainnet.functions().withdraw().input(v_vec, r_vec, s_vec, message)
withdraw_input(v_vec, r_vec, s_vec, message) ==
    [fn |-> "withdraw", v |-> v_vec, r |-> r_vec, s |-> s_vec, message |-> message]

withdraw_relay_payload_v_first(signatures, message) ==
    IF Len(message) # 84 \/ \E k \in DOMAIN signatures : Len(signatures[k]) # 65
    THEN [panic |-> TRUE, data |-> withdraw_input(<<>>, <<>>, <<>>, message)]
    ELSE [panic |-> FALSE,
          data |-> withdraw_input(
              [k \in DOMAIN signatures |->
                  [j \in 1..32 |-> IF j = 1 THEN signatures[k][65] ELSE 0]],
              [k \in DOMAIN signatures |-> SubSeq(signatures[k], 1, 32)],
              [k \in DOMAIN signatures |-> SubSeq(signatures[k], 33, 64)],
              message)]

\* withdraw_relay_payload(mainnet, signatures, message): the two assert_eq!
\* on the lengths; r, s and v of every signature, v in the last byte of a
\* zeroed 32-byte word; then the call data of withdraw.
withdraw_relay_payload(signatures, message) ==
    IF Len(message) # 84 \/ \E k \in DOMAIN signatures : Len(signatures[k]) # 65
    THEN [panic |-> TRUE, data |-> withdraw_input(<<>>, <<>>, <<>>, message)]
    ELSE [panic |-> FALSE,
          data |-> withdraw_input(
              [k \in DOMAIN signatures |->
                  [j \in 1..32 |-> IF j = 32 THEN signatures[k][65] ELSE 0]],
              [k \in DOMAIN signatures |-> SubSeq(signatures[k], 1, 32)],
              [k \in DOMAIN signatures |-> SubSeq(signatures[k], 33, 64)],
              message)]

(***************************************************************************)
(* WithdrawRelayState and create_withdraw_relay                            *)
(***************************************************************************)

Wait == [tag |-> "Wait"]
Fetch(future, block) == [tag |-> "Fetch", future |-> future, block |-> block]
RelayWithdraws(future, block) == [tag |-> "RelayWithdraws", future |-> future, block |-> block]
Yield(block) == [tag |-> "Yield", block |-> block]

\* Database::default()
Database_default ==
    [checked_deposit_relay |-> 0, checked_withdraw_relay |-> 0,
     checked_withdraw_confirm |-> 0,
     mainnet_contract_address |-> "mainnet_contract",
     testnet_contract_address |-> "testnet_contract"]

\* collected_signatures_filter(testnet, address)
collected_signatures_filter == "collected_signatures"

create_withdraw_relay_from_deposit(init) ==
    [logs |-> log_stream([after |-> init.checked_deposit_relay,
                          confirmations |-> Confirmations,
                          filter |-> collected_signatures_filter]),
     mainnet_contract |-> init.mainnet_contract_address,
     testnet_contract |-> init.testnet_contract_address,
     state |-> Wait]

create_withdraw_relay_from_start(init) ==
    [logs |-> log_stream([after |-> 0, confirmations |-> Confirmations,
                          filter |-> collected_signatures_filter]),
     mainnet_contract |-> init.mainnet_contract_address,
     testnet_contract |-> init.testnet_contract_address,
     state |-> Wait]

create_withdraw_relay_skip_one(init) ==
    [logs |-> log_stream([after |-> init.checked_withdraw_relay + 1,
                          confirmations |-> Confirmations,
                          filter |-> collected_signatures_filter]),
     mainnet_contract |-> init.mainnet_contract_address,
     testnet_contract |-> init.testnet_contract_address,
     state |-> Wait]

\* create_withdraw_relay(app, init): the log stream starts after
\* init.checked_withdraw_relay, the relay in Wait.
create_withdraw_relay(init) ==
    [logs |-> log_stream([after |-> init.checked_withdraw_relay,
                          confirmations |-> Confirmations,
                          filter |-> collected_signatures_filter]),
     mainnet_contract |-> init.mainnet_contract_address,
     testnet_contract |-> init.testnet_contract_address,
     state |-> Wait]

(***************************************************************************)
(* Futures: an RPC in flight, join_all and join                            *)
(***************************************************************************)

\* api::call / api::send_transaction wrapped in timer.timeout: the request
\* is out, the answer pending.
ApiCall(payload) == [payload |-> payload, st |-> "pending"]

\* api::call(&connections.testnet, testnet_contract, payload): an eth_call
\* to the contract on the testnet endpoint.
call(contract, payload) ==
    [side |-> "testnet", to |-> contract, payload |-> payload, st |-> "pending"]

\* api::send_transaction(&connections.mainnet, TransactionRequest { from:
\* config.mainnet.account, to: mainnet_contract, gas, gas_price, data }).
send_transaction(contract, payload) ==
    [side |-> "mainnet", from |-> Config.mainnet.account, to |-> contract,
     gas |-> Config.txs.withdraw_relay.gas,
     gas_price |-> Config.txs.withdraw_relay.gas_price,
     payload |-> payload, st |-> "pending"]

RECURSIVE Flatten(_)
Flatten(ss) == IF ss = <<>> THEN <<>> ELSE Head(ss) \o Flatten(Tail(ss))

join_poll_ignore_errors(calls) ==
    IF \E i \in DOMAIN calls : calls[i].st = "pending" THEN "NotReady"
    ELSE "Ready"

join_poll_empty_pending(calls) ==
    IF \E i \in DOMAIN calls : calls[i].st = "err" THEN "Err"
    ELSE IF calls = <<>> \/ \E i \in DOMAIN calls : calls[i].st = "pending" THEN "NotReady"
    ELSE "Ready"

\* JoinAll::poll and Join::poll: the first error fails the join, a pending
\* element keeps it NotReady, else it is Ready with the results in order.
join_poll(calls) ==
    IF \E i \in DOMAIN calls : calls[i].st = "err" THEN "Err"
    ELSE IF \E i \in DOMAIN calls : calls[i].st = "pending" THEN "NotReady"
    ELSE "Ready"

FetchCalls(future) == future.messages \o Flatten(future.signatures)

\* How many of the requests are on behalf of the log with this message_hash.
CountFor(h, payloads) ==
    Cardinality({i \in DOMAIN payloads : payloads[i].message_hash = h})

(***************************************************************************)
(* WithdrawRelay::poll                                                     *)
(***************************************************************************)

Continue(w) == [go |-> TRUE, w |-> w, ret |-> "NotReady", v |-> 0]
Return(w, r, v) == [go |-> FALSE, w |-> w, ret |-> r, v |-> v]

\* WithdrawRelayState::Wait
Wait_arm(w, my_address) ==
    LET p == LogStream_poll(w.logs)
        w1 == [w EXCEPT !.logs = p.s]
    IN  IF p.ret # "Ready" THEN Return(w1, p.ret, 0)
        ELSE
        LET w2 == [w1 EXCEPT !.batches = Append(@, [from |-> p.item.from,
                                      to |-> p.item.to, head |-> p.item.head])]
            assignments == [i \in DOMAIN p.item.logs |->
                signatures_payload(RequiredSignatures, my_address, p.item.logs[i])]
        IN  IF \E i \in DOMAIN assignments : assignments[i].err
            THEN Return(w2, "Err", 0)
            ELSE
            LET surviving == SelectSeq(assignments, LAMBDA a : a.some)
                message_calls == [i \in DOMAIN surviving |->
                    call(w.testnet_contract, surviving[i].a.message_payload)]
                signature_calls == [i \in DOMAIN surviving |->
                    [j \in DOMAIN surviving[i].a.signature_payloads |->
                        call(w.testnet_contract, surviving[i].a.signature_payloads[j])]]
                future == [messages |-> message_calls, signatures |-> signature_calls]
                issued == [i \in DOMAIN FetchCalls(future) |-> FetchCalls(future)[i].payload]
            IN  Continue([w2 EXCEPT
                    !.state = Fetch(future, p.item.to),
                    !.eth_calls = [h \in Blocks |-> @[h] + CountFor(h, issued)]])

withdraw_payloads_crossed(messages, signatures) ==
    [i \in 1..(IF Len(messages) < Len(signatures) THEN Len(messages) ELSE Len(signatures)) |->
        withdraw_relay_payload(signatures[Len(signatures) + 1 - i], messages[i])]

\* messages.into_iter().zip(signatures).map(withdraw_relay_payload): the
\* i-th message with the i-th list of signatures.
withdraw_payloads(messages, signatures) ==
    [i \in 1..(IF Len(messages) < Len(signatures) THEN Len(messages) ELSE Len(signatures)) |->
        withdraw_relay_payload(signatures[i], messages[i])]

Fetch_arm_error_value(w) ==
    LET future == w.state.future
        polled == join_poll(FetchCalls(future))
    IN  IF polled # "Ready" THEN Return(w, polled, 0)
        ELSE
        LET messages == [i \in DOMAIN future.messages |-> Fetched(future.messages[i])]
            signatures == [i \in DOMAIN future.signatures |->
                [j \in DOMAIN future.signatures[i] |-> Fetched(future.signatures[i][j])]]
            payloads == withdraw_payloads(messages, signatures)
            bad == {i \in DOMAIN payloads : payloads[i].panic}
            sent == {i \in DOMAIN payloads : \A k \in bad : i < k}
            relays == [i \in DOMAIN payloads |->
                send_transaction(w.mainnet_contract, payloads[i].data)]
            w1 == [w EXCEPT !.txs = [h \in Blocks |-> @[h] +
                      Cardinality({i \in sent : payloads[i].data.message[1] = h})]]
        IN  IF Len(messages) # Len(signatures) \/ bad # {}
            THEN Return(w1, "Err", 0)
            ELSE Continue([w1 EXCEPT !.state = RelayWithdraws(relays, w.state.block)])

\* WithdrawRelayState::Fetch
Fetch_arm(w) ==
    LET future == w.state.future
        polled == join_poll(FetchCalls(future))
    IN  IF polled # "Ready" THEN Return(w, polled, 0)
        ELSE
        LET messages == [i \in DOMAIN future.messages |-> Fetched(future.messages[i])]
            signatures == [i \in DOMAIN future.signatures |->
                [j \in DOMAIN future.signatures[i] |-> Fetched(future.signatures[i][j])]]
            payloads == withdraw_payloads(messages, signatures)
            \* assert_eq!(messages.len(), signatures.len()) comes first; the
            \* iterator is lazy: the requests before the first failing
            \* assertion of withdraw_relay_payload are already sent when it
            \* fails
            bad == {i \in DOMAIN payloads : payloads[i].panic}
            sent == {i \in DOMAIN payloads : \A k \in bad : i < k}
            relays == [i \in DOMAIN payloads |->
                send_transaction(w.mainnet_contract, payloads[i].data)]
            w1 == [w EXCEPT !.txs = [h \in Blocks |-> @[h] +
                      Cardinality({i \in sent : payloads[i].data.message[1] = h})]]
        IN  IF Len(messages) # Len(signatures) \/ bad # {}
            THEN Return(w1, "Panic", 0)
            ELSE Continue([w1 EXCEPT !.state = RelayWithdraws(relays, w.state.block)])

RelayWithdraws_arm_skip_yield(w) ==
    LET polled == join_poll(w.state.future)
    IN  IF polled # "Ready" THEN Return(w, polled, 0)
        ELSE Continue([w EXCEPT !.state = Wait])

RelayWithdraws_arm_swallow(w) ==
    LET polled == join_poll(w.state.future)
    IN  IF polled = "NotReady" THEN Return(w, polled, 0)
        ELSE Continue([w EXCEPT !.state = Yield(Some(w.state.block))])

RelayWithdraws_arm_no_wait(w) ==
    LET polled == join_poll(w.state.future)
    IN  IF polled = "Err" THEN Return(w, polled, 0)
        ELSE Continue([w EXCEPT !.state = Yield(Some(w.state.block))])

\* WithdrawRelayState::RelayWithdraws
RelayWithdraws_arm(w) ==
    LET polled == join_poll(w.state.future)
    IN  IF polled # "Ready" THEN Return(w, polled, 0)
        ELSE Continue([w EXCEPT !.state = Yield(Some(w.state.block))])

Yield_arm_keep(w) ==
    IF w.state.block.some
    THEN Return(w, "Ready", w.state.block.v)
    ELSE Continue([w EXCEPT !.state = Wait])

Yield_arm_park(w) ==
    IF w.state.block.some
    THEN Return([w EXCEPT !.state = Yield(None)], "Ready", w.state.block.v)
    ELSE Return(w, "NotReady", 0)

\* WithdrawRelayState::Yield
Yield_arm(w) ==
    IF w.state.block.some
    THEN Return([w EXCEPT !.state = Yield(None)], "Ready", w.state.block.v)
    ELSE Continue([w EXCEPT !.state = Wait])

RECURSIVE poll(_, _)
poll(w, my_address) ==
    LET a == CASE w.state.tag = "Wait" -> Wait_arm(w, my_address)
               [] w.state.tag = "Fetch" -> Fetch_arm(w)
               [] w.state.tag = "RelayWithdraws" -> RelayWithdraws_arm(w)
               [] w.state.tag = "Yield" -> Yield_arm(w)
    IN  IF a.go THEN poll(a.w, my_address) ELSE a

\* The Wait arm that goes straight to Yield(block) when no assignment
\* survives, and the poll that has it for its Wait arm.
Wait_arm_short_circuit(w, my_address) ==
    LET p == LogStream_poll(w.logs)
        assignments == [i \in DOMAIN p.item.logs |->
            signatures_payload(RequiredSignatures, my_address, p.item.logs[i])]
    IN  IF /\ p.ret = "Ready"
           /\ \A i \in DOMAIN assignments : ~assignments[i].err /\ ~assignments[i].some
        THEN Continue([w EXCEPT
                 !.logs = p.s,
                 !.batches = Append(@, [from |-> p.item.from, to |-> p.item.to,
                                        head |-> p.item.head]),
                 !.state = Yield(Some(p.item.to))])
        ELSE Wait_arm(w, my_address)

RECURSIVE poll_short_circuit(_, _)
poll_short_circuit(w, my_address) ==
    LET a == CASE w.state.tag = "Wait" -> Wait_arm_short_circuit(w, my_address)
               [] w.state.tag = "Fetch" -> Fetch_arm(w)
               [] w.state.tag = "RelayWithdraws" -> RelayWithdraws_arm(w)
               [] w.state.tag = "Yield" -> Yield_arm(w)
    IN  IF a.go THEN poll_short_circuit(a.w, my_address) ELSE a

\* The states self.state takes in one call of poll, the first the one the
\* call starts in, each next one assigned by the loop, the last the one the
\* call returns in.
RECURSIVE poll_states(_, _)
poll_states(w, my_address) ==
    LET a == CASE w.state.tag = "Wait" -> Wait_arm(w, my_address)
               [] w.state.tag = "Fetch" -> Fetch_arm(w)
               [] w.state.tag = "RelayWithdraws" -> RelayWithdraws_arm(w)
               [] w.state.tag = "Yield" -> Yield_arm(w)
    IN  <<w.state>> \o (IF a.go THEN poll_states(a.w, my_address) ELSE <<a.w.state>>)

(***************************************************************************)
(* The state: every node, started or not                                   *)
(***************************************************************************)

Zero == [h \in Blocks |-> 0]

\* The relay is gone: what it sent becomes the node's past.
Forget(n) ==
    /\ eth_calls' = [eth_calls EXCEPT ![n] = Zero]
    /\ eth_calls_ok' = [eth_calls_ok EXCEPT ![n] = Zero]
    /\ txs' = [txs EXCEPT ![n] = Zero]
    /\ txs_ok' = [txs_ok EXCEPT ![n] = Zero]
    /\ past' = [past EXCEPT ![n] =
                   [txs |-> @.txs \cup {h \in Blocks : txs[n][h] > 0},
                    txs_ok |-> @.txs_ok \cup {h \in Blocks : txs_ok[n][h] > 0}]]

\* The supervisor starts a relay from the persisted database.
Start(n) ==
    LET relay == create_withdraw_relay(database[n])
    IN  /\ proc' = [proc EXCEPT ![n] = "up"]
        /\ logs' = [logs EXCEPT ![n] = relay.logs]
        /\ state' = [state EXCEPT ![n] = relay.state]
        /\ ret' = [ret EXCEPT ![n] = "NotReady"]
        /\ item' = [item EXCEPT ![n] = None]
        /\ boot' = [boot EXCEPT ![n] = database[n].checked_withdraw_relay]
        /\ batches' = [batches EXCEPT ![n] = <<>>]
        /\ failed' = [failed EXCEPT ![n] = None]
        /\ Forget(n)

\* The started nodes' relays as created from the database init.
InitFrom(started, init) ==
    /\ chain \in [Blocks -> LogKinds]
    /\ nodes = started
    /\ database = [n \in Nodes |-> init]
    /\ proc = [n \in Nodes |-> IF n \in started THEN "up" ELSE "down"]
    /\ logs = [n \in Nodes |-> create_withdraw_relay(init).logs]
    /\ state = [n \in Nodes |-> create_withdraw_relay(init).state]
    /\ ret = [n \in Nodes |-> "NotReady"]
    /\ item = [n \in Nodes |-> None]
    /\ boot = [n \in Nodes |-> init.checked_withdraw_relay]
    /\ restarts = [n \in Nodes |-> 0]
    /\ batches = [n \in Nodes |-> <<>>]
    /\ eth_calls = [n \in Nodes |-> Zero]
    /\ txs = [n \in Nodes |-> Zero]
    /\ eth_calls_ok = [n \in Nodes |-> Zero]
    /\ txs_ok = [n \in Nodes |-> Zero]
    /\ past = [n \in Nodes |-> [txs |-> {}, txs_ok |-> {}]]
    /\ failed = [n \in Nodes |-> None]

InitOf(started) == InitFrom(started, Database_default)

\* The node's other two relays, not created.
NoRelays ==
    /\ events = [f \in {"deposit", "withdraw"} |-> [b \in Blocks |-> "none"]]
    /\ other = [r \in {"deposit_relay", "withdraw_confirm"} |-> None]

Init == InitOf({1}) /\ input = None /\ output = None /\ NoRelays

(***************************************************************************)
(* The RPC endpoints and the timer                                         *)
(***************************************************************************)

Up(n) == n \in nodes /\ proc[n] = "up"

\* eth_blockNumber answers with a head.
HeadResponse(n, h) ==
    /\ Up(n)
    /\ logs[n].stage = "awaitHead" /\ logs[n].st = "pending"
    /\ logs' = [logs EXCEPT ![n].st = "ok", ![n].head = h]
    /\ UNCHANGED <<failed, input, output, events, other, chain, nodes, database, proc, state, ret, item, boot,
                   restarts, batches, eth_calls, eth_calls_ok, txs, txs_ok, past>>

\* eth_getLogs answers.
LogsResponse(n) ==
    /\ Up(n)
    /\ logs[n].stage = "awaitLogs" /\ logs[n].st = "pending"
    /\ logs' = [logs EXCEPT ![n].st = "ok"]
    /\ UNCHANGED <<failed, input, output, events, other, chain, nodes, database, proc, state, ret, item, boot,
                   restarts, batches, eth_calls, eth_calls_ok, txs, txs_ok, past>>

\* poll_interval has passed.
TimerFire(n) ==
    /\ Up(n)
    /\ logs[n].stage = "sleep" /\ logs[n].st = "pending"
    /\ logs' = [logs EXCEPT ![n].st = "ok"]
    /\ UNCHANGED <<failed, input, output, events, other, chain, nodes, database, proc, state, ret, item, boot,
                   restarts, batches, eth_calls, eth_calls_ok, txs, txs_ok, past>>

\* eth_blockNumber or eth_getLogs fails or runs into request_timeout.
StreamError(n) ==
    /\ Up(n)
    /\ logs[n].stage \in {"awaitHead", "awaitLogs"} /\ logs[n].st = "pending"
    /\ logs' = [logs EXCEPT ![n].st = "err"]
    /\ UNCHANGED <<failed, input, output, events, other, chain, nodes, database, proc, state, ret, item, boot,
                   restarts, batches, eth_calls, eth_calls_ok, txs, txs_ok, past>>

\* The eth_call for a message is answered: bytes of the right length, bytes
\* of another length, or an error or timeout.
MessageResponse(n, i, outcome) ==
    /\ Up(n)
    /\ state[n].tag = "Fetch"
    /\ i \in DOMAIN state[n].future.messages
    /\ state[n].future.messages[i].st = "pending"
    /\ state' = [state EXCEPT ![n].future.messages[i].st = outcome]
    /\ eth_calls_ok' = [eth_calls_ok EXCEPT
           ![n][state[n].future.messages[i].payload.message_hash] =
               IF outcome = "err" THEN @ ELSE @ + 1]
    /\ UNCHANGED <<failed, input, output, events, other, chain, nodes, database, proc, logs, ret, item, boot,
                   restarts, batches, eth_calls, txs, txs_ok, past>>

\* The eth_call for a signature is answered.
SignatureResponse(n, i, j, outcome) ==
    /\ Up(n)
    /\ state[n].tag = "Fetch"
    /\ i \in DOMAIN state[n].future.signatures
    /\ j \in DOMAIN state[n].future.signatures[i]
    /\ state[n].future.signatures[i][j].st = "pending"
    /\ state' = [state EXCEPT ![n].future.signatures[i][j].st = outcome]
    /\ eth_calls_ok' = [eth_calls_ok EXCEPT
           ![n][state[n].future.signatures[i][j].payload.message_hash] =
               IF outcome = "err" THEN @ ELSE @ + 1]
    /\ UNCHANGED <<failed, input, output, events, other, chain, nodes, database, proc, logs, ret, item, boot,
                   restarts, batches, eth_calls, txs, txs_ok, past>>

\* eth_sendTransaction is answered: a transaction hash, or an error or timeout.
SendResponse(n, i, outcome) ==
    /\ Up(n)
    /\ state[n].tag = "RelayWithdraws"
    /\ i \in DOMAIN state[n].future
    /\ state[n].future[i].st = "pending"
    /\ state' = [state EXCEPT ![n].future[i].st = outcome]
    /\ txs_ok' = [txs_ok EXCEPT
           ![n][state[n].future[i].payload.message[1]] =
               IF outcome = "ok" THEN @ + 1 ELSE @]
    /\ UNCHANGED <<failed, input, output, events, other, chain, nodes, database, proc, logs, ret, item, boot,
                   restarts, batches, eth_calls, eth_calls_ok, txs, past>>

(***************************************************************************)
(* The supervisor                                                          *)
(***************************************************************************)

\* The relay of node n as poll takes it: its stream and state, the contract
\* addresses it was created with, and what it has been delivered and has
\* sent.
RelayOf(n) ==
    [logs |-> logs[n], state |-> state[n],
     mainnet_contract |-> create_withdraw_relay(database[n]).mainnet_contract,
     testnet_contract |-> create_withdraw_relay(database[n]).testnet_contract,
     batches |-> batches[n], eth_calls |-> eth_calls[n], txs |-> txs[n]]

\* The batch the call of poll that returned r gave up: r is an error, and
\* either the call stopped in Fetch or RelayWithdraws (a failed RPC of the
\* batch in hand), or it took a batch and stopped in Wait (a log of the
\* batch did not parse). An error of the log stream is for no batch.
FailedBatch(before, r) ==
    IF r.ret = "Err" /\ r.w.state.tag \in {"Fetch", "RelayWithdraws"}
    THEN Some(r.w.state.block)
    ELSE IF r.ret = "Err" /\ Len(r.w.batches) > Len(before)
    THEN Some(r.w.batches[Len(r.w.batches)].to)
    ELSE None

\* The supervisor polls the relay: WithdrawRelay::poll runs until it
\* returns. An item is kept until persisted; an error or a failed assertion
\* ends the relay.
Poll(n) ==
    /\ Up(n)
    /\ ~item[n].some
    /\ LET r == poll(RelayOf(n), Account[n])
       IN  /\ logs' = [logs EXCEPT ![n] = r.w.logs]
           /\ state' = [state EXCEPT ![n] = r.w.state]
           /\ batches' = [batches EXCEPT ![n] = r.w.batches]
           /\ eth_calls' = [eth_calls EXCEPT ![n] = r.w.eth_calls]
           /\ txs' = [txs EXCEPT ![n] = r.w.txs]
           /\ ret' = [ret EXCEPT ![n] = r.ret]
           /\ item' = [item EXCEPT ![n] = IF r.ret = "Ready" THEN Some(r.v) ELSE None]
           /\ proc' = [proc EXCEPT ![n] = IF r.ret \in {"Err", "Panic"} THEN "down" ELSE "up"]
           /\ failed' = [failed EXCEPT ![n] =
                  IF @.some THEN @ ELSE FailedBatch(batches[n], r)]
    /\ UNCHANGED <<input, output, events, other, chain, nodes, database, boot, restarts, eth_calls_ok, txs_ok, past>>

\* The supervisor writes the emitted block to the relay's checkpoint field.
Persist(n) ==
    /\ Up(n)
    /\ item[n].some
    /\ database' = [database EXCEPT ![n].checked_withdraw_relay = item[n].v]
    /\ item' = [item EXCEPT ![n] = None]
    /\ UNCHANGED <<failed, input, output, events, other, chain, nodes, proc, logs, state, ret, boot, restarts,
                   batches, eth_calls, eth_calls_ok, txs, txs_ok, past>>

\* The process dies: everything but the database is lost.
Crash(n) ==
    /\ Up(n)
    /\ proc' = [proc EXCEPT ![n] = "down"]
    /\ logs' = [logs EXCEPT ![n] = create_withdraw_relay(Database_default).logs]
    /\ state' = [state EXCEPT ![n] = Wait]
    /\ ret' = [ret EXCEPT ![n] = "NotReady"]
    /\ item' = [item EXCEPT ![n] = None]
    /\ batches' = [batches EXCEPT ![n] = <<>>]
    /\ Forget(n)
    /\ failed' = [failed EXCEPT ![n] = None]
    /\ UNCHANGED <<input, output, events, other, chain, nodes, database, boot, restarts>>

\* The relay is created again from the persisted database.
Restart(n) ==
    /\ n \in nodes /\ proc[n] = "down"
    /\ restarts[n] < MaxRestarts
    /\ restarts' = [restarts EXCEPT ![n] = @ + 1]
    /\ Start(n)
    /\ UNCHANGED <<input, output, events, other, chain, nodes, database>>

Outcomes == {"ok", "short", "err"}

Next ==
    \E n \in Nodes :
        \/ \E h \in 0..MaxHead : HeadResponse(n, h)
        \/ LogsResponse(n)
        \/ TimerFire(n)
        \/ StreamError(n)
        \/ \E i \in Blocks, o \in Outcomes : MessageResponse(n, i, o)
        \/ \E i \in Blocks, j \in 1..RequiredSignatures, o \in Outcomes :
               SignatureResponse(n, i, j, o)
        \/ \E i \in Blocks, o \in {"ok", "err"} : SendResponse(n, i, o)
        \/ Poll(n)
        \/ Persist(n)
        \/ Crash(n)
        \/ Restart(n)

Spec == Init /\ [][Next]_vars

(***************************************************************************)
(* Two authority nodes on the same testnet chain, each with its own        *)
(* account, database and relay, every RPC answered                         *)
(***************************************************************************)

InitNodes == InitOf(Nodes) /\ input = None /\ output = None /\ NoRelays

NextNodes ==
    \E n \in Nodes :
        \/ \E h \in 0..MaxHead : HeadResponse(n, h)
        \/ LogsResponse(n)
        \/ TimerFire(n)
        \/ \E i \in Blocks : MessageResponse(n, i, "ok")
        \/ \E i \in Blocks, j \in 1..RequiredSignatures : SignatureResponse(n, i, j, "ok")
        \/ \E i \in Blocks : SendResponse(n, i, "ok")
        \/ Poll(n)
        \/ Persist(n)

SpecNodes == InitNodes /\ [][NextNodes]_vars

(***************************************************************************)
(* signatures_payload and withdraw_relay_payload called on their own, as   *)
(* the unit tests call them                                                *)
(***************************************************************************)

\* The largest required_signatures of the small range, the longest list of
\* signatures, and a required_signatures whose last index needs two bytes.
MaxSignatures == 3
ManySignatures == 258

\* A byte string of the given length, every byte different from its
\* neighbours.
BytesFrom(first, len) == [k \in 1..len |-> (first + k - 1) % 256]

RECURSIVE SeqsUpTo(_, _)
SeqsUpTo(S, len) ==
    IF len = 0 THEN {<<>>}
    ELSE SeqsUpTo(S, len - 1) \cup
         {Append(q, x) : q \in {r \in SeqsUpTo(S, len - 1) : Len(r) = len - 1}, x \in S}

SignaturesPayloadInputs ==
    [fn : {"signatures_payload"},
     signatures : (0..MaxSignatures) \cup {ManySignatures},
     my_address : {"a1", "a2"},
     log : [message_hash : {1, 240}, authority : {"a1", "a2"}, parses : BOOLEAN]]

WithdrawRelayPayloadInputs ==
    [fn : {"withdraw_relay_payload"},
     signatures : SeqsUpTo({BytesFrom(first, len) : first \in {17, 200}, len \in {64, 65}},
                           MaxSignatures - 1),
     message : {BytesFrom(51, len) : len \in {83, 84, 85}}]

InitPayload ==
    /\ InitOf({})
    /\ NoRelays
    /\ chain = [b \in Blocks |-> "none"]
    /\ input \in SignaturesPayloadInputs \cup WithdrawRelayPayloadInputs
    /\ output = None

CallSignaturesPayload ==
    /\ input.fn = "signatures_payload"
    /\ ~output.some
    /\ output' = Some(signatures_payload(input.signatures, input.my_address, input.log))
    /\ UNCHANGED <<failed, input, events, other, chain, nodes, database, proc, logs, state, ret, item, boot,
                   restarts, batches, eth_calls, eth_calls_ok, txs, txs_ok, past>>

CallWithdrawRelayPayload ==
    /\ input.fn = "withdraw_relay_payload"
    /\ ~output.some
    /\ output' = Some(withdraw_relay_payload(input.signatures, input.message))
    /\ UNCHANGED <<failed, input, events, other, chain, nodes, database, proc, logs, state, ret, item, boot,
                   restarts, batches, eth_calls, eth_calls_ok, txs, txs_ok, past>>

NextPayload == CallSignaturesPayload \/ CallWithdrawRelayPayload

SpecPayload == InitPayload /\ [][NextPayload]_vars

(***************************************************************************)
(* DepositRelay and WithdrawConfirm: Wait -> Submit{future, block} ->      *)
(* Yield(block) -> Wait, and node 1 running them next to its WithdrawRelay *)
(***************************************************************************)

OtherRelays == {"deposit_relay", "withdraw_confirm"}

\* The filter a relay tails and its field of the checkpoint.
FilterOf(r) == IF r = "deposit_relay" THEN "deposit" ELSE "withdraw"
Checked(db, r) ==
    IF r = "deposit_relay" THEN db.checked_deposit_relay ELSE db.checked_withdraw_confirm
WithChecked(db, r, block) ==
    IF r = "deposit_relay" THEN [db EXCEPT !.checked_deposit_relay = block]
    ELSE [db EXCEPT !.checked_withdraw_confirm = block]

\* The call data built for a log: deposit(recipient, value, transactionHash)
\* for DepositRelay, submitSignature(signature, message) for WithdrawConfirm.
PayloadOf(r, log) ==
    IF r = "deposit_relay"
    THEN [fn |-> "deposit", recipient |-> log.recipient, value |-> log.value,
          transaction_hash |-> log.transaction_hash]
    ELSE [fn |-> "submitSignature",
          signature |-> [by |-> Config.testnet.account, of |-> log.transaction_hash],
          message |-> [recipient |-> log.recipient, value |-> log.value,
                       transaction_hash |-> log.transaction_hash]]

TransactionRequestOf_mainnet(r, contract, log) ==
    [side |-> "mainnet", from |-> Config.mainnet.account, to |-> contract,
     gas |-> Config.txs[r].gas, gas_price |-> Config.txs[r].gas_price,
     data |-> PayloadOf(r, log)]

\* TransactionRequest { from = config.testnet.account, to = testnet_contract,
\* gas, gas_price, data }, sent to the testnet endpoint.
TransactionRequestOf(r, contract, log) ==
    [side |-> "testnet", from |-> Config.testnet.account, to |-> contract,
     gas |-> Config.txs[r].gas, gas_price |-> Config.txs[r].gas_price,
     data |-> PayloadOf(r, log)]

Submit(future, block) == [tag |-> "Submit", future |-> future, block |-> block]

\* The relay as created from the database: its stream after its own field
\* of the checkpoint, in Wait, nothing delivered or sent.
create_relay(r, init) ==
    [proc |-> "up",
     logs |-> log_stream([after |-> Checked(init, r), confirmations |-> Confirmations,
                          filter |-> FilterOf(r)]),
     state |-> Wait,
     contract |-> init.testnet_contract_address,
     ret |-> "NotReady", item |-> None, batches |-> <<>>, sent |-> <<>>]

\* Wait: poll the LogStream; on a batch, one transaction per log, all sent
\* at once, and on to Submit with block = to.
Other_Wait_arm(r, w) ==
    LET p == LogStream_poll(w.logs)
        w1 == [w EXCEPT !.logs = p.s]
    IN  IF p.ret # "Ready" THEN Return(w1, p.ret, 0)
        ELSE
        LET requests == [i \in DOMAIN p.item.logs |->
                TransactionRequestOf(r, w.contract, p.item.logs[i])]
        IN  Continue([w1 EXCEPT
                !.batches = Append(@, [from |-> p.item.from, to |-> p.item.to,
                                       head |-> p.item.head,
                                       logs |-> Len(p.item.logs)]),
                !.sent = @ \o [i \in DOMAIN requests |->
                                  [batch |-> p.item.to, request |-> requests[i]]],
                !.state = Submit([i \in DOMAIN requests |-> ApiCall(requests[i])],
                                 p.item.to)])

\* Submit: when the joined future completes, on to Yield(to).
Submit_arm(w) ==
    LET polled == join_poll(w.state.future)
    IN  IF polled # "Ready" THEN Return(w, polled, 0)
        ELSE Continue([w EXCEPT !.state = Yield(Some(w.state.block))])

RECURSIVE other_poll(_, _)
other_poll(r, w) ==
    LET a == CASE w.state.tag = "Wait" -> Other_Wait_arm(r, w)
               [] w.state.tag = "Submit" -> Submit_arm(w)
               [] w.state.tag = "Yield" -> Yield_arm(w)
    IN  IF a.go THEN other_poll(r, a.w) ELSE a

OtherUp(r) == other[r].proc = "up"

OtherHeadResponse(r, h) ==
    /\ OtherUp(r)
    /\ other[r].logs.stage = "awaitHead" /\ other[r].logs.st = "pending"
    /\ other' = [other EXCEPT ![r].logs.st = "ok", ![r].logs.head = h]
    /\ UNCHANGED <<failed, input, output, events, chain, nodes, database, proc, logs, state,
                   ret, item, boot, restarts, batches, eth_calls, eth_calls_ok,
                   txs, txs_ok, past>>

OtherLogsResponse(r) ==
    /\ OtherUp(r)
    /\ other[r].logs.stage = "awaitLogs" /\ other[r].logs.st = "pending"
    /\ other' = [other EXCEPT ![r].logs.st = "ok"]
    /\ UNCHANGED <<failed, input, output, events, chain, nodes, database, proc, logs, state,
                   ret, item, boot, restarts, batches, eth_calls, eth_calls_ok,
                   txs, txs_ok, past>>

OtherTimerFire(r) ==
    /\ OtherUp(r)
    /\ other[r].logs.stage = "sleep" /\ other[r].logs.st = "pending"
    /\ other' = [other EXCEPT ![r].logs.st = "ok"]
    /\ UNCHANGED <<failed, input, output, events, chain, nodes, database, proc, logs, state,
                   ret, item, boot, restarts, batches, eth_calls, eth_calls_ok,
                   txs, txs_ok, past>>

OtherStreamError(r) ==
    /\ OtherUp(r)
    /\ other[r].logs.stage \in {"awaitHead", "awaitLogs"} /\ other[r].logs.st = "pending"
    /\ other' = [other EXCEPT ![r].logs.st = "err"]
    /\ UNCHANGED <<failed, input, output, events, chain, nodes, database, proc, logs, state,
                   ret, item, boot, restarts, batches, eth_calls, eth_calls_ok,
                   txs, txs_ok, past>>

\* eth_sendTransaction is answered: a transaction hash, or an error or timeout.
OtherSendResponse(r, i, outcome) ==
    /\ OtherUp(r)
    /\ other[r].state.tag = "Submit"
    /\ i \in DOMAIN other[r].state.future
    /\ other[r].state.future[i].st = "pending"
    /\ other' = [other EXCEPT ![r].state.future[i].st = outcome]
    /\ UNCHANGED <<failed, input, output, events, chain, nodes, database, proc, logs, state,
                   ret, item, boot, restarts, batches, eth_calls, eth_calls_ok,
                   txs, txs_ok, past>>

\* The supervisor polls the relay.
OtherPoll(r) ==
    /\ OtherUp(r)
    /\ ~other[r].item.some
    /\ LET a == other_poll(r, other[r])
       IN  other' = [other EXCEPT ![r] =
               [a.w EXCEPT !.ret = a.ret,
                           !.item = IF a.ret = "Ready" THEN Some(a.v) ELSE None,
                           !.proc = IF a.ret = "Err" THEN "down" ELSE "up"]]
    /\ UNCHANGED <<failed, input, output, events, chain, nodes, database, proc, logs, state,
                   ret, item, boot, restarts, batches, eth_calls, eth_calls_ok,
                   txs, txs_ok, past>>

\* The supervisor writes the emitted block to the relay's checkpoint field.
OtherPersist(r) ==
    /\ OtherUp(r)
    /\ other[r].item.some
    /\ database' = [database EXCEPT ![1] = WithChecked(@, r, other[r].item.v)]
    /\ other' = [other EXCEPT ![r].item = None]
    /\ UNCHANGED <<failed, input, output, events, chain, nodes, proc, logs, state,
                   ret, item, boot, restarts, batches, eth_calls, eth_calls_ok,
                   txs, txs_ok, past>>

\* DepositRelay alone, created from Database::default(), over any mainnet
\* chain.
InitDeposit ==
    /\ InitOf({})
    /\ chain = [b \in Blocks |-> "none"]
    /\ input = None /\ output = None
    /\ events \in [{"deposit", "withdraw"} -> [Blocks -> {"none", "log"}]]
    /\ events["withdraw"] = [b \in Blocks |-> "none"]
    /\ other = [r \in OtherRelays |->
                   IF r = "deposit_relay" THEN create_relay(r, Database_default)
                   ELSE None]

NextDeposit ==
    \/ \E h \in 0..MaxHead : OtherHeadResponse("deposit_relay", h)
    \/ OtherLogsResponse("deposit_relay")
    \/ OtherTimerFire("deposit_relay")
    \/ OtherStreamError("deposit_relay")
    \/ \E i \in Blocks, o \in {"ok", "err"} : OtherSendResponse("deposit_relay", i, o)
    \/ OtherPoll("deposit_relay")
    \/ OtherPersist("deposit_relay")

SpecDeposit == InitDeposit /\ [][NextDeposit]_vars

\* The three relays of node 1, created from a database in which the
\* deposit relay's field is 0 or 1: the first block holds a Deposit log, a
\* Withdraw log and a CollectedSignatures log naming the node;
\* eth_blockNumber answers MaxHead.
InitRelays ==
    /\ \E d \in {0, 1} :
           InitFrom({1}, [Database_default EXCEPT !.checked_deposit_relay = d])
    /\ chain = [b \in Blocks |-> IF b = 1 THEN Account[1] ELSE "none"]
    /\ input = None /\ output = None
    /\ events = [f \in {"deposit", "withdraw"} |->
                    [b \in Blocks |-> IF b = 1 THEN "log" ELSE "none"]]
    /\ other = [r \in OtherRelays |-> create_relay(r, database[1])]

NextRelays ==
    \/ \E r \in OtherRelays :
           \/ OtherHeadResponse(r, MaxHead)
           \/ OtherLogsResponse(r)
           \/ OtherTimerFire(r)
           \/ OtherStreamError(r)
           \/ \E i \in Blocks, o \in {"ok", "err"} : OtherSendResponse(r, i, o)
           \/ OtherPoll(r)
           \/ OtherPersist(r)
    \/ HeadResponse(1, MaxHead)
    \/ LogsResponse(1)
    \/ TimerFire(1)
    \/ StreamError(1)
    \/ \E i \in Blocks, o \in {"ok", "err"} : MessageResponse(1, i, o)
    \/ \E i \in Blocks, j \in 1..RequiredSignatures, o \in {"ok", "err"} :
           SignatureResponse(1, i, j, o)
    \/ \E i \in Blocks, o \in {"ok", "err"} : SendResponse(1, i, o)
    \/ Poll(1)
    \/ Persist(1)

SpecRelays == InitRelays /\ [][NextRelays]_vars

(***************************************************************************)
(* A caller that keeps the relay after poll returned an error and polls it *)
(* again                                                                   *)
(***************************************************************************)

\* What future.poll() may do on a join that has already resolved with an
\* error: return an error again, panic, or, for the join_all of
\* RelayWithdraws, be Ready with the results that are left.
Repolled == {"Err", "Panic", "Ready"}

\* WithdrawRelay::poll called again after it returned an error. self.state
\* is what the failed call left: Fetch or RelayWithdraws with the future
\* that resolved with the error, whose poll does o; or Wait, the batch
\* whose log did not parse already taken from the stream, and poll runs as
\* ever.
poll_again(w, my_address, o) ==
    LET resolved ==
            \/ w.state.tag = "Fetch" /\ join_poll(FetchCalls(w.state.future)) = "Err"
            \/ w.state.tag = "RelayWithdraws" /\ join_poll(w.state.future) = "Err"
    IN  IF resolved /\ w.state.tag = "Fetch"
        THEN Return(w, IF o = "Ready" THEN "Panic" ELSE o, 0)
        ELSE IF resolved /\ o # "Ready"
        THEN Return(w, o, 0)
        ELSE poll(IF resolved THEN [w EXCEPT !.state = Yield(Some(w.state.block))]
                  ELSE w, my_address)

\* The caller polls the relay whose last poll returned an error.
Repoll(n, o) ==
    /\ n \in nodes /\ proc[n] = "down" /\ ret[n] = "Err"
    /\ ~item[n].some
    /\ LET r == poll_again(RelayOf(n), Account[n], o)
       IN  /\ logs' = [logs EXCEPT ![n] = r.w.logs]
           /\ state' = [state EXCEPT ![n] = r.w.state]
           /\ batches' = [batches EXCEPT ![n] = r.w.batches]
           /\ eth_calls' = [eth_calls EXCEPT ![n] = r.w.eth_calls]
           /\ txs' = [txs EXCEPT ![n] = r.w.txs]
           /\ ret' = [ret EXCEPT ![n] = r.ret]
           /\ item' = [item EXCEPT ![n] = IF r.ret = "Ready" THEN Some(r.v) ELSE None]
           /\ proc' = [proc EXCEPT ![n] = IF r.ret \in {"Err", "Panic"} THEN "down" ELSE "up"]
           /\ failed' = [failed EXCEPT ![n] =
                  IF @.some THEN @ ELSE FailedBatch(batches[n], r)]
    /\ UNCHANGED <<input, output, events, other, chain, nodes, database, boot, restarts, eth_calls_ok, txs_ok, past>>

NextRepoll ==
    \/ \E h \in 0..MaxHead : HeadResponse(1, h)
    \/ LogsResponse(1)
    \/ TimerFire(1)
    \/ StreamError(1)
    \/ \E i \in Blocks, o \in Outcomes : MessageResponse(1, i, o)
    \/ \E i \in Blocks, j \in 1..RequiredSignatures, o \in Outcomes :
           SignatureResponse(1, i, j, o)
    \/ \E i \in Blocks, o \in {"ok", "err"} : SendResponse(1, i, o)
    \/ Poll(1)
    \/ Persist(1)
    \/ \E o \in Repolled : Repoll(1, o)

SpecRepoll == Init /\ [][NextRepoll]_vars

(***************************************************************************)
(* The relay of node 1 with a growing head, every RPC answered, the        *)
(* supervisor polling and persisting                                       *)
(***************************************************************************)

NextLive ==
    \/ \E h \in 0..MaxHead : HeadResponse(1, h)
    \/ LogsResponse(1)
    \/ TimerFire(1)
    \/ \E i \in Blocks : MessageResponse(1, i, "ok")
    \/ \E i \in Blocks, j \in 1..RequiredSignatures : SignatureResponse(1, i, j, "ok")
    \/ \E i \in Blocks : SendResponse(1, i, "ok")
    \/ Poll(1)
    \/ Persist(1)

\* A call of poll would change the relay of node 1 or return something
\* else than the last call: ENABLED <<Poll(1)>>_vars.
PollRuns ==
    /\ Up(1) /\ ~item[1].some
    /\ LET r == poll(RelayOf(1), Account[1])
       IN  <<r.w.logs, r.w.state, r.w.batches, r.w.eth_calls, r.w.txs, r.ret,
             r.ret = "Ready", r.ret \in {"Err", "Panic"}>> #
           <<logs[1], state[1], batches[1], eth_calls[1], txs[1], ret[1],
             FALSE, FALSE>>

\* Every request in flight is answered, the timer fires, the task is
\* polled when it can run and an emitted block is persisted; the head
\* grows, so that eth_blockNumber answers MaxHead again and again. The
\* second conjunct is WF_vars(Poll(1)) by its definition.
LiveFairness ==
    /\ SF_vars(HeadResponse(1, MaxHead))
    /\ WF_vars(LogsResponse(1))
    /\ WF_vars(TimerFire(1))
    /\ WF_vars(\E i \in Blocks : MessageResponse(1, i, "ok"))
    /\ WF_vars(\E i \in Blocks, j \in 1..RequiredSignatures :
                   SignatureResponse(1, i, j, "ok"))
    /\ WF_vars(\E i \in Blocks : SendResponse(1, i, "ok"))
    /\ ([]<>~PollRuns) \/ ([]<><<Poll(1)>>_vars)
    /\ WF_vars(Persist(1))

SpecLive == Init /\ [][NextLive]_vars /\ LiveFairness

(***************************************************************************)
(* What the properties speak of                                            *)
(***************************************************************************)

Last(q) == q[Len(q)]

\* The log of block h names node n's account.
Mine(n, h) == chain[h] = Account[n]

\* Some relay of node n sent a withdraw transaction for h / had it accepted.
Submitted(n, h) == txs[n][h] > 0 \/ h \in past[n].txs
Accepted(n, h) == txs_ok[n][h] > 0 \/ h \in past[n].txs_ok

\* The blocks of batch b, those whose log names node n, and whether every
\* log of the batch parses.
BlocksOf(b) == b.from..b.to
MineIn(n, b) == {h \in BlocksOf(b) : Mine(n, h)}
Parses(b) == \A h \in BlocksOf(b) : chain[h] # "bad"

\* Every side-effect RPC of batch b of node n's relay has completed
\* successfully: for each log naming the node, the eth_call for the
\* message, those for the signatures and the withdraw eth_sendTransaction.
AllRpcsOk(n, b) ==
    \A h \in MineIn(n, b) :
        /\ eth_calls_ok[n][h] = RequiredSignatures + 1
        /\ txs_ok[n][h] >= 1

\* The relay of node n has given the supervisor batch b's block, now or before.
Emitted(n, b) ==
    item[n] = Some(b.to) \/ database[n].checked_withdraw_relay >= b.to

\* What the poll of node n's relay is about to run into: a failed RPC of
\* the log stream, a log that does not parse, a failed eth_call, a failed
\* eth_sendTransaction.
Failure(n) ==
    \/ /\ state[n] \in {Wait, Yield(None)}
       /\ \/ logs[n].st = "err"
          \/ /\ logs[n].stage = "awaitLogs" /\ logs[n].st = "ok"
             /\ \E h \in logs[n].from..logs[n].to : chain[h] = "bad"
    \/ /\ state[n].tag = "Fetch"
       /\ \E i \in DOMAIN FetchCalls(state[n].future) :
              FetchCalls(state[n].future)[i].st = "err"
    \/ /\ state[n].tag = "RelayWithdraws"
       /\ \E i \in DOMAIN state[n].future : state[n].future[i].st = "err"

\* Where the batch that failed started: the last batch delivered if its
\* block was not persisted, else the range the log stream was to ask for.
FailedFrom(n) ==
    IF batches[n] # <<>> /\ Last(batches[n]).to > database[n].checked_withdraw_relay
    THEN Last(batches[n]).from
    ELSE logs[n].last_checked + 1

\* An eth_getLogs request of node n's relay is in flight.
GetLogsOut(n) == Up(n) /\ logs[n].stage = "awaitLogs"

(***************************************************************************)
(* Properties                                                              *)
(***************************************************************************)

\* C1 as stated, for every batch delivered: the relay emits b.to (and only
\* then is the checkpoint written, to b.to) if and only if every
\* side-effect RPC of b has completed successfully.
C1_Original ==
    /\ [](\A n \in Nodes :
            item[n].some =>
                /\ batches[n] # <<>>
                /\ item[n].v = Last(batches[n]).to
                /\ AllRpcsOk(n, Last(batches[n])))
    /\ [][\A n \in Nodes :
            /\ database'[n] # database[n] =>
                   /\ item[n].some
                   /\ database'[n].checked_withdraw_relay = item[n].v
            /\ (Poll(n) /\ batches'[n] # <<>>) =>
                   LET b == Last(batches'[n])
                   IN  (\A h \in MineIn(n, b) :
                            /\ eth_calls_ok'[n][h] = RequiredSignatures + 1
                            /\ txs_ok'[n][h] >= 1)
                       => \/ item'[n] = Some(b.to)
                          \/ database'[n].checked_withdraw_relay >= b.to]_vars

\* C1 amended, for every batch delivered whose logs all parse: the relay
\* emits b.to (and only then is the checkpoint written, to b.to) if and
\* only if every side-effect RPC of b has completed successfully, in
\* whatever order the answers came.
C1_EmitIffAllRpcsOk ==
    /\ [](\A n \in Nodes :
            item[n].some =>
                /\ batches[n] # <<>>
                /\ item[n].v = Last(batches[n]).to
                /\ Parses(Last(batches[n]))
                /\ AllRpcsOk(n, Last(batches[n])))
    /\ [][\A n \in Nodes :
            /\ database'[n] # database[n] =>
                   /\ item[n].some
                   /\ database'[n].checked_withdraw_relay = item[n].v
            /\ (Poll(n) /\ batches'[n] # <<>>) =>
                   LET b == Last(batches'[n])
                   IN  (/\ Parses(b)
                        /\ \A h \in MineIn(n, b) :
                               /\ eth_calls_ok'[n][h] = RequiredSignatures + 1
                               /\ txs_ok'[n][h] >= 1)
                       => \/ item'[n] = Some(b.to)
                          \/ database'[n].checked_withdraw_relay >= b.to]_vars

\* C1 witness: the relay has emitted the block of a batch with two logs
\* naming the node, after six RPCs.
C1_Witness ==
    \E n \in nodes :
        /\ item[n].some
        /\ Cardinality(MineIn(n, Last(batches[n]))) = 2

\* C2: a failed RPC of the log stream, a log that does not parse, a failed
\* eth_call or a failed eth_sendTransaction makes the poll return the error
\* and no block; the checkpoint stays below the failed batch, the relay
\* created next starts at the failed batch's first block, and a relay that
\* took a batch has asked for every log of it that names the node, also
\* those an earlier relay sent the transaction for.
C2_ErrorsAbortBatch ==
    /\ [](\A n \in Nodes :
            /\ ret[n] = "Err" =>
                   /\ proc[n] = "down" /\ ~item[n].some
                   /\ FailedFrom(n) = database[n].checked_withdraw_relay + 1
            /\ (Up(n) /\ state[n].tag = "Fetch") =>
                   \A h \in MineIn(n, Last(batches[n])) :
                       eth_calls[n][h] = RequiredSignatures + 1)
    /\ [][\A n \in Nodes :
            /\ (Poll(n) /\ Failure(n)) =>
                   /\ ret'[n] = "Err" /\ ~item'[n].some
                   /\ database'[n] = database[n]
            /\ (Restart(n) /\ ret[n] = "Err") =>
                   logs'[n].last_checked + 1 = FailedFrom(n)]_vars

\* C2 witness: the poll returned an error for a batch of which one
\* transaction had been sent and accepted.
C2_Witness ==
    \E n \in nodes :
        /\ ret[n] = "Err"
        /\ \E h \in Blocks : txs_ok[n][h] > 0

\* C3 as stated: no event's transaction is lost and none is submitted more
\* than once, whatever the crashes and restarts.
C3_Original ==
    \A n \in Nodes : \A h \in Blocks :
        /\ (Mine(n, h) /\ h <= database[n].checked_withdraw_relay) => Submitted(n, h)
        /\ txs[n][h] + (IF h \in past[n].txs THEN 1 ELSE 0) <= 1

\* C3 amended: no event's transaction is lost; a relay submits an event's
\* transaction at most once, and only for an event above the checkpoint it
\* was created from, so a transaction is submitted again only after a
\* failure that came before the checkpoint write of its batch.
C3_NoLossResubmitAboveCheckpoint ==
    \A n \in Nodes : \A h \in Blocks :
        /\ (Mine(n, h) /\ h <= database[n].checked_withdraw_relay) => Submitted(n, h)
        /\ txs[n][h] <= 1
        /\ txs[n][h] > 0 => h > boot[n]
        /\ boot[n] <= database[n].checked_withdraw_relay

\* C3 witness: a relay created from a checkpoint above 0 has submitted a
\* transaction that an earlier relay had submitted too.
C3_Witness ==
    \E n \in nodes : \E h \in Blocks :
        boot[n] > 0 /\ txs[n][h] > 0 /\ h \in past[n].txs

\* C4: every log that names the node, in a block at or below the persisted
\* checkpoint, has had its withdraw transaction accepted by the endpoint at
\* least once.
C4_CheckpointedWereAccepted ==
    \A n \in Nodes : \A h \in Blocks :
        (Mine(n, h) /\ h <= database[n].checked_withdraw_relay) => Accepted(n, h)

\* C4 witness: after a restart the checkpoint covers two logs naming the
\* node, one of them accepted under an earlier relay.
C4_Witness ==
    \E n \in nodes :
        /\ restarts[n] > 0
        /\ \A h \in Blocks : Mine(n, h) /\ h <= database[n].checked_withdraw_relay
        /\ \E h \in Blocks : h \in past[n].txs_ok

\* C5: the persisted checkpoint checked_withdraw_relay of a node never
\* decreases, whatever the crashes, errors and restarts in between.
C5_CheckpointMonotonic ==
    [][\A n \in Nodes : database'[n].checked_withdraw_relay
                            >= database[n].checked_withdraw_relay]_vars

\* C5 witness: a relay created by the second restart, from a checkpoint
\* above 0, has had a block persisted beyond that checkpoint.
C5_Witness ==
    \E n \in nodes : /\ restarts[n] = 2
                     /\ boot[n] > 0
                     /\ database[n].checked_withdraw_relay > boot[n]

\* C6: the eth_getLogs requests of a relay created from checkpoint c: the
\* first has fromBlock = c + 1 and none asks for a block <= c.
C6_ResumeFromCheckpoint ==
    \A n \in Nodes :
        GetLogsOut(n) =>
            /\ logs[n].from > boot[n]
            /\ batches[n] = <<>> => logs[n].from = boot[n] + 1

\* C6 witness: a re-created relay, from a checkpoint above 0, has its first
\* eth_getLogs request in flight.
C6_Witness ==
    \E n \in nodes : /\ GetLogsOut(n)
                     /\ restarts[n] > 0
                     /\ boot[n] > 0
                     /\ batches[n] = <<>>

\* C7: the batches one LogStream delivered cover the blocks after `after`
\* with no gap and no duplicate: to >= from in each, the first starts at
\* after + 1, each next one at the previous to + 1.
C7_BatchesAdjacent ==
    \A n \in Nodes :
        \A i \in DOMAIN batches[n] :
            /\ batches[n][i].to >= batches[n][i].from
            /\ i = 1 => batches[n][i].from = logs[n].after + 1
            /\ i > 1 => batches[n][i].from = batches[n][i - 1].to + 1

\* C7 witness: a stream has delivered two batches.
C7_Witness ==
    \E n \in nodes : Len(batches[n]) = 2

\* The relay's poll finds the answer to eth_blockNumber.
HeadSeen(n) ==
    /\ Up(n) /\ ~item[n].some
    /\ state[n] \in {Wait, Yield(None)}
    /\ logs[n].stage = "awaitHead" /\ logs[n].st = "ok"

\* C8: a batch is asked for and delivered with to = head - confirmations,
\* head being the answer that opened it; a head below last_checked +
\* confirmations + 1 opens no eth_getLogs request but the poll_interval
\* wait, and the head is asked for again only when the wait is over.
C8_ConfirmedOnly ==
    /\ [](\A n \in Nodes :
            /\ \A i \in DOMAIN batches[n] :
                   batches[n][i].to = batches[n][i].head - Confirmations
            /\ GetLogsOut(n) => logs[n].to = logs[n].head - Confirmations)
    /\ [][\A n \in Nodes :
            /\ (Poll(n) /\ HeadSeen(n)
                  /\ logs[n].head < logs[n].last_checked + Confirmations + 1)
               => logs'[n].stage = "sleep" /\ logs'[n].st = "pending"
            /\ (Poll(n) /\ logs[n].stage = "sleep" /\ logs'[n].stage # "sleep")
               => logs[n].st = "ok" /\ logs'[n].stage = "awaitHead"]_vars

\* C8 witness: the stream waits after a head that confirms no new block,
\* having delivered a batch before.
C8_Witness ==
    \E n \in nodes : /\ Up(n) /\ logs[n].stage = "sleep"
                     /\ batches[n] # <<>>
                     /\ logs[n].last_checked > 0

\* The log of block h parses and names another authority than node n's.
Foreign(n, h) == chain[h] \notin {"none", "bad", Account[n]}

\* C9: for a log naming another authority signatures_payload returns no
\* assignment and no error, the relay issues no eth_call and no
\* eth_sendTransaction for it, and a batch of such logs is emitted by the
\* poll that takes it.
C9_OthersLogsDropped ==
    \A n \in nodes :
        /\ \A h \in Blocks : Foreign(n, h) =>
               /\ signatures_payload(RequiredSignatures, Account[n], LogOf(h))
                      = [err |-> FALSE, some |-> FALSE, a |-> NoAssignment]
               /\ eth_calls[n][h] = 0 /\ txs[n][h] = 0
               /\ ~Submitted(n, h)
        /\ (Up(n) /\ batches[n] # <<>>
               /\ Parses(Last(batches[n])) /\ MineIn(n, Last(batches[n])) = {})
           => Emitted(n, Last(batches[n]))

\* C9 witness: the relay has emitted the block of a batch that holds a log
\* naming another authority and a log naming the node.
C9_Witness ==
    \E n \in nodes :
        /\ item[n].some
        /\ \E h \in BlocksOf(Last(batches[n])) : Foreign(n, h)
        /\ \E h \in BlocksOf(Last(batches[n])) : Mine(n, h)

\* C10: of the nodes that watch the same chain, only the one whose account
\* the event names issues RPCs for it, it has the transaction accepted
\* before its checkpoint passes the event, and every other node's
\* checkpoint passes the event with nothing sent.
C10_OnlyTheNamedNodeRelays ==
    \A h \in Blocks :
        /\ \A n \in nodes :
               /\ ~Mine(n, h) => eth_calls[n][h] = 0 /\ txs[n][h] = 0
               /\ (Mine(n, h) /\ h <= database[n].checked_withdraw_relay)
                  => txs[n][h] = 1 /\ txs_ok[n][h] = 1
        /\ Cardinality({n \in nodes : txs[n][h] > 0}) <= 1
        /\ (chain[h] \notin {"none", "bad"}
              /\ \A n \in nodes : h <= database[n].checked_withdraw_relay)
           => {n \in nodes : txs[n][h] > 0} = {n \in nodes : Mine(n, h)}

\* C10 witness: both nodes' checkpoints have passed an event naming node 1
\* and an event naming node 2.
C10_Witness ==
    /\ nodes = Nodes
    /\ \A n \in Nodes : database[n].checked_withdraw_relay = MaxBlock
    /\ \E h \in Blocks : Mine(1, h)
    /\ \E h \in Blocks : Mine(2, h)

\* The number a byte string is, most significant byte first.
RECURSIVE BigEndian(_)
BigEndian(w) ==
    IF w = <<>> THEN 0 ELSE 256 * BigEndian(SubSeq(w, 1, Len(w) - 1)) + w[Len(w)]

\* C11: for a log that names my_address and required_signatures = N,
\* signatures_payload returns an assignment whose message_payload is the
\* call data of message(message_hash) and whose N signature_payloads are,
\* in ascending order of i = 0..N-1, the call data of
\* signature(message_hash, w) with w the 32-byte big-endian word of i.
C11_AssignmentPayloads ==
    (/\ output.some /\ input.fn = "signatures_payload"
     /\ input.log.parses /\ input.log.authority = input.my_address)
    => /\ ~output.v.err /\ output.v.some
       /\ output.v.a.message_payload =
              [fn |-> "message", message_hash |-> input.log.message_hash]
       /\ Len(output.v.a.signature_payloads) = input.signatures
       /\ \A i \in 0..(input.signatures - 1) :
              LET p == output.v.a.signature_payloads[i + 1]
              IN  /\ DOMAIN p = {"fn", "message_hash", "index"}
                  /\ p.fn = "signature"
                  /\ p.message_hash = input.log.message_hash
                  /\ Len(p.index) = 32
                  /\ \A k \in 1..32 : p.index[k] \in 0..255
                  /\ BigEndian(p.index) = i

\* C11 witness: the assignment for a log naming my_address with so many
\* required signatures that the last index takes two bytes.
C11_Witness ==
    /\ output.some /\ input.fn = "signatures_payload"
    /\ input.log.parses /\ input.log.authority = input.my_address
    /\ input.signatures = ManySignatures
    /\ output.v.a.signature_payloads[input.signatures].index[31] = 1

\* C12: for an 84-byte message and 65-byte signatures, withdraw_relay_payload
\* passes to withdraw the arrays v, r and s, as long as the list of
\* signatures and in its order, with r = sig[0..32], s = sig[32..64], v a
\* 32-byte word of zeros ending in sig[64], and the message unchanged.
C12_WithdrawArguments ==
    (/\ output.some /\ input.fn = "withdraw_relay_payload"
     /\ Len(input.message) = 84
     /\ \A k \in DOMAIN input.signatures : Len(input.signatures[k]) = 65)
    => /\ ~output.v.panic
       /\ output.v.data.fn = "withdraw"
       /\ output.v.data.message = input.message
       /\ Len(output.v.data.v) = Len(input.signatures)
       /\ Len(output.v.data.r) = Len(input.signatures)
       /\ Len(output.v.data.s) = Len(input.signatures)
       /\ \A k \in DOMAIN input.signatures :
              /\ Len(output.v.data.r[k]) = 32
              /\ Len(output.v.data.s[k]) = 32
              /\ Len(output.v.data.v[k]) = 32
              /\ \A j \in 1..32 :
                     /\ output.v.data.r[k][j] = input.signatures[k][j]
                     /\ output.v.data.s[k][j] = input.signatures[k][32 + j]
                     /\ output.v.data.v[k][j] =
                            IF j = 32 THEN input.signatures[k][65] ELSE 0

\* C12 witness: the call data for an 84-byte message and two different
\* 65-byte signatures.
C12_Witness ==
    /\ output.some /\ input.fn = "withdraw_relay_payload"
    /\ Len(input.message) = 84
    /\ Len(input.signatures) = 2
    /\ \A k \in 1..2 : Len(input.signatures[k]) = 65
    /\ input.signatures[1] # input.signatures[2]
    /\ ~output.v.panic

\* The join of the Fetch stage of node n's relay is complete, and the
\* logs of which a fetched message or signature has another length than
\* 84 or 65 bytes.
FetchComplete(n) ==
    state[n].tag = "Fetch" /\ join_poll(FetchCalls(state[n].future)) = "Ready"
Malformed(n) ==
    {h \in Blocks : \E i \in DOMAIN FetchCalls(state[n].future) :
        /\ FetchCalls(state[n].future)[i].st = "short"
        /\ FetchCalls(state[n].future)[i].payload.message_hash = h}

\* C13: when the Fetch stage completes with a message that is not 84 bytes
\* or a signature that is not 65 bytes, the poll ends in the failed
\* assertion and the process is gone: it returns neither an error value nor
\* a block, sends no withdraw for the malformed log, and the batch's block
\* is not emitted nor written; every withdraw ever in flight is well formed.
C13_MalformedAborts ==
    /\ [](\A n \in Nodes :
            /\ ret[n] = "Panic" =>
                   /\ proc[n] = "down" /\ ~item[n].some
                   /\ Last(batches[n]).to > database[n].checked_withdraw_relay
            /\ (Up(n) /\ state[n].tag = "RelayWithdraws") =>
                   \A i \in DOMAIN state[n].future :
                       LET data == state[n].future[i].payload
                       IN  /\ Len(data.message) = 84
                           /\ Len(data.v) = RequiredSignatures
                           /\ \A k \in DOMAIN data.v :
                                  Len(data.v[k]) = 32 /\ Len(data.r[k]) = 32
                                      /\ Len(data.s[k]) = 32)
    /\ [][\A n \in Nodes :
            (Poll(n) /\ FetchComplete(n) /\ Malformed(n) # {}) =>
                /\ ret'[n] = "Panic" /\ ~item'[n].some /\ proc'[n] = "down"
                /\ database'[n] = database[n]
                /\ \A h \in Malformed(n) : txs'[n][h] = txs[n][h]]_vars

\* C13 witness: the assertion failed on the second log of a batch after
\* the withdraw of the first, well-formed, log was sent.
C13_Witness ==
    \E n \in nodes :
        /\ ret[n] = "Panic"
        /\ \E h \in Blocks : txs[n][h] > 0

\* The node's DepositRelay.
DepositRelay == other["deposit_relay"]

\* The Deposit logs of the blocks of batch b, by transaction hash.
DepositLogsOf(b) == {h \in BlocksOf(b) : events["deposit"][h] = "log"}

CycleEdge(a, b, to) ==
    \/ b = a /\ a.tag # "Yield"
    \/ a.tag = "Wait" /\ b.tag = "Fetch" /\ b.block = to
    \/ a.tag = "Fetch" /\ b.tag = "RelayWithdraws" /\ b.block = a.block /\ a.block = to
    \/ a.tag = "RelayWithdraws" /\ b = Yield(Some(a.block)) /\ a.block = to
    \/ a.tag = "Yield" /\ a.block = Some(to) /\ b = Yield(None)
    \/ a = Yield(None) /\ b.tag = "Wait"

\* C15: a relay is created in Wait; every assignment of its state in
\* every call of poll goes one step along Wait -> Fetch -> RelayWithdraws ->
\* Yield -> Wait, the block of Fetch being the delivered batch's to, carried
\* unchanged into Yield; a call that emits a block emits the last batch's
\* to, which was not emitted before, and the relay is back in Wait only
\* after that one emission.
C15_StateCycle ==
    \A n \in Nodes :
        /\ create_withdraw_relay(database[n]).state = Wait
        /\ (Up(n) /\ ~item[n].some) =>
               LET r == poll(RelayOf(n), Account[n])
                   tr == poll_states(RelayOf(n), Account[n])
               IN  /\ tr[1] = state[n] /\ tr[Len(tr)] = r.w.state
                   /\ \A k \in 1..(Len(tr) - 1) :
                          /\ r.w.batches # <<>> \/ tr[k + 1].tag = "Wait"
                          /\ r.w.batches # <<>> =>
                                 CycleEdge(tr[k], tr[k + 1], Last(r.w.batches).to)
                   /\ r.ret = "Ready" =>
                          /\ r.v = Last(r.w.batches).to
                          /\ r.v > database[n].checked_withdraw_relay
                          /\ r.w.state = Yield(None)
        /\ (Up(n) /\ state[n].tag = "Wait" /\ batches[n] # <<>>) =>
               Emitted(n, Last(batches[n]))

\* C15 witness: a relay that has gone round the cycle once is in Fetch for
\* its second batch.
C15_Witness ==
    \E n \in nodes :
        /\ Len(batches[n]) = 2
        /\ state[n].tag = "Fetch"
        /\ database[n].checked_withdraw_relay = batches[n][1].to

\* The sum of f over the blocks of S.
RECURSIVE SumOver(_, _)
SumOver(f, S) ==
    IF S = {} THEN 0
    ELSE LET h == CHOOSE x \in S : TRUE IN f[h] + SumOver(f, S \ {h})

\* C16: for the batch a relay took, with L logs naming the node and
\* required_signatures = N, the relay has issued L * (N + 1) eth_calls, one
\* for the message and N for the signatures of each such log, all to the
\* testnet contract; once it is past Fetch it has issued L withdraws, one
\* per such log, all to the mainnet contract; and no withdraw of the batch
\* is issued before every eth_call of the batch was answered.
C16_TwoStageFanOut ==
    \A n \in nodes :
        (batches[n] # <<>> /\ Parses(Last(batches[n]))) =>
            LET b == Last(batches[n])
                L == Cardinality(MineIn(n, b))
                N == RequiredSignatures
            IN  /\ SumOver(eth_calls[n], BlocksOf(b)) = L * (N + 1)
                /\ \A h \in MineIn(n, b) : eth_calls[n][h] = N + 1
                /\ SumOver(txs[n], BlocksOf(b)) <= L
                /\ \A h \in BlocksOf(b) : txs[n][h] <= 1
                /\ (state[n].tag = "RelayWithdraws" \/ Emitted(n, b)) =>
                       /\ SumOver(txs[n], BlocksOf(b)) = L
                       /\ \A h \in MineIn(n, b) : txs[n][h] = 1
                /\ (\E h \in BlocksOf(b) : txs[n][h] > 0) =>
                       SumOver(eth_calls_ok[n], BlocksOf(b)) = L * (N + 1)
                /\ state[n].tag = "Fetch" =>
                       /\ Len(state[n].future.messages) = L
                       /\ Len(state[n].future.signatures) = L
                       /\ \A i \in DOMAIN state[n].future.signatures :
                              Len(state[n].future.signatures[i]) = N
                       /\ \A i \in DOMAIN FetchCalls(state[n].future) :
                              LET c == FetchCalls(state[n].future)[i]
                              IN  /\ c.side = "testnet"
                                  /\ c.to = database[n].testnet_contract_address
                /\ state[n].tag = "RelayWithdraws" =>
                       /\ Len(state[n].future) = L
                       /\ \A i \in DOMAIN state[n].future :
                              /\ state[n].future[i].side = "mainnet"
                              /\ state[n].future[i].to = database[n].mainnet_contract_address
                              /\ state[n].future[i].payload.fn = "withdraw"

\* C16 witness: the relay waits for the two withdraws of a batch with two
\* logs naming the node.
C16_Witness ==
    \E n \in nodes :
        /\ state[n].tag = "RelayWithdraws"
        /\ Cardinality(MineIn(n, Last(batches[n]))) = 2
        /\ Len(state[n].future) = 2

\* The logs of batch b that name node n, in the order of the batch.
RECURSIVE Surviving(_, _, _)
Surviving(n, from, to) ==
    IF from > to THEN <<>>
    ELSE (IF Mine(n, from) THEN <<from>> ELSE <<>>) \o Surviving(n, from + 1, to)

TakesEmptyBatch(n) ==
    /\ Up(n) /\ ~item[n].some
    /\ state[n] \in {Wait, Yield(None)}
    /\ logs[n].stage = "awaitLogs" /\ logs[n].st = "ok"
    /\ \A h \in logs[n].from..logs[n].to : chain[h] \notin {"bad", Account[n]}

\* C18: a call of poll that takes a batch without surviving assignments
\* goes through Fetch and RelayWithdraws with empty futures and Yield in
\* that one call, emits the batch's to and issues no request; and every
\* call of poll returns the same, and leaves the relay the same, as the poll
\* that goes from Wait straight to Yield(block) for such a batch.
C18_EmptyBatchShortCircuit ==
    \A n \in nodes :
        /\ (Up(n) /\ ~item[n].some) =>
               poll(RelayOf(n), Account[n]) = poll_short_circuit(RelayOf(n), Account[n])
        /\ TakesEmptyBatch(n) =>
               LET r == poll(RelayOf(n), Account[n])
                   tr == poll_states(RelayOf(n), Account[n])
                   empty == [messages |-> <<>>, signatures |-> <<>>]
               IN  /\ SubSeq(tr, Len(tr) - 4, Len(tr)) =
                          <<Wait, Fetch(empty, logs[n].to), RelayWithdraws(<<>>, logs[n].to),
                            Yield(Some(logs[n].to)), Yield(None)>>
                   /\ r.ret = "Ready" /\ r.v = logs[n].to
                   /\ r.w.eth_calls = eth_calls[n] /\ r.w.txs = txs[n]

\* C18 witness: the second batch of a relay, holding only a log that names
\* another authority, was emitted with no request issued.
C18_Witness ==
    \E n \in nodes :
        /\ Len(batches[n]) = 2
        /\ item[n] = Some(batches[n][2].to)
        /\ \E h \in BlocksOf(batches[n][2]) : Foreign(n, h)
        /\ \A h \in BlocksOf(batches[n][2]) : eth_calls[n][h] = 0 /\ txs[n][h] = 0

\* C19: a call of poll that starts with a batch in Fetch or RelayWithdraws
\* leaves the log stream as it is and takes no batch, and any call takes at
\* most one; every batch but the last one delivered was emitted and
\* written before the next was taken; the batches follow one another in
\* block order, and a block emitted is above the checkpoint, so the blocks
\* emitted and the checkpoint writes are strictly increasing.
C19_OneBatchAtATime ==
    \A n \in nodes :
        /\ (Up(n) /\ ~item[n].some) =>
               LET r == poll(RelayOf(n), Account[n])
               IN  /\ state[n].tag \in {"Fetch", "RelayWithdraws"} =>
                          r.w.logs = logs[n] /\ r.w.batches = batches[n]
                   /\ Len(r.w.batches) <= Len(batches[n]) + 1
                   /\ Len(r.w.batches) = Len(batches[n]) + 1 =>
                          /\ state[n] \in {Wait, Yield(None)}
                          /\ batches[n] # <<>> =>
                                 database[n].checked_withdraw_relay = Last(batches[n]).to
        /\ state[n].tag \in {"Fetch", "RelayWithdraws"} =>
               /\ batches[n] # <<>>
               /\ state[n].block = Last(batches[n]).to
               /\ state[n].block > database[n].checked_withdraw_relay
        /\ \A k \in 1..(Len(batches[n]) - 1) :
               /\ batches[n][k].to < batches[n][k + 1].from
               /\ batches[n][k].to <= database[n].checked_withdraw_relay
        /\ item[n].some =>
               /\ item[n].v > database[n].checked_withdraw_relay
               /\ item[n].v = Last(batches[n]).to

\* C19 witness: the second batch of a relay is emitted, the first written;
\* each held a log naming the node.
C19_Witness ==
    \E n \in nodes :
        /\ Len(batches[n]) = 2
        /\ item[n] = Some(batches[n][2].to)
        /\ database[n].checked_withdraw_relay = batches[n][1].to
        /\ Mine(n, batches[n][1].to) /\ Mine(n, batches[n][2].to)

\* What belongs to each of node 1's three relays: its state, its log
\* stream, what it has in flight, and its field of the checkpoint.
Relays == OtherRelays \cup {"withdraw_relay"}
Own(R) ==
    IF R = "withdraw_relay"
    THEN <<proc[1], logs[1], state[1], ret[1], item[1], batches[1], eth_calls[1],
           eth_calls_ok[1], txs[1], txs_ok[1], database[1].checked_withdraw_relay>>
    ELSE <<other[R], Checked(database[1], R)>>

\* C20: every step of the three relays of a node, a poll that emits a
\* block or fails and the checkpoint write included, changes what belongs
\* to one relay only and leaves the two contract addresses as they are;
\* each relay's stream starts after its own field of the checkpoint,
\* whatever the other fields hold.
C20_RelaysIndependent ==
    /\ [](/\ logs[1].after = boot[1]
          /\ \A r \in OtherRelays : other[r].logs.after <= Checked(database[1], r)
          /\ database[1].checked_withdraw_relay \in {boot[1]} \cup
                 {batches[1][k].to : k \in DOMAIN batches[1]})
    /\ [][/\ Cardinality({R \in Relays : Own(R)' # Own(R)}) <= 1
          /\ database'[1].mainnet_contract_address = database[1].mainnet_contract_address
          /\ database'[1].testnet_contract_address = database[1].testnet_contract_address
          /\ (Poll(1) \/ Persist(1)) =>
                 \A r \in OtherRelays : Own(r)' = Own(r)
          /\ \A r \in OtherRelays : (OtherPoll(r) \/ OtherPersist(r)) =>
                 \A R \in Relays \ {r} : Own(R)' = Own(R)]_vars

\* C20 witness: the deposit relay has failed after its checkpoint write,
\* the other two relays are running with theirs written.
C20_Witness ==
    /\ other["deposit_relay"].ret = "Err"
    /\ database[1].checked_deposit_relay > 1
    /\ database[1].checked_withdraw_relay > 0
    /\ database[1].checked_withdraw_confirm > 0
    /\ proc[1] = "up" /\ other["withdraw_confirm"].proc = "up"

\* C21: once poll of the relay has returned an error for a batch, no later
\* poll of the same relay emits a block at or above the batch's to.
C21_NoEmissionAfterError ==
    \A n \in Nodes :
        failed[n].some /\ item[n].some => item[n].v < failed[n].v

\* Every log of the chain parses.
LogsParse == \A h \in Blocks : chain[h] # "bad"

\* The relay has just given the supervisor a block at or above b.
EmitsFrom(b) == item[1].some /\ item[1].v >= b

\* The relay is in the middle of a batch.
InBatch == state[1].tag \in {"Fetch", "RelayWithdraws", "Yield"}

\* C22 as stated: with the head growing, every RPC answered and the
\* supervisor polling and persisting, the relay eventually emits a block at
\* or above every block after `after`, every CollectedSignatures log naming
\* the node eventually has its withdraw sent, and the relay never stays in
\* Fetch, RelayWithdraws or Yield.
C22_Original ==
    /\ \A b \in Blocks : <>EmitsFrom(b)
    /\ \A h \in Blocks : <>(Mine(1, h) => txs[1][h] > 0)
    /\ InBatch ~> (state[1].tag = "Wait")

\* C22: with the head growing, every RPC answered and the supervisor
\* polling and persisting, and every log of the chain parsing, the relay
\* eventually emits a block at or above every block after `after` and
\* every CollectedSignatures log naming the node eventually has its
\* withdraw sent; parsing or not, the relay never stays in Fetch,
\* RelayWithdraws or Yield.
C22_ProgressWhenLogsParse ==
    /\ \A b \in Blocks : <>(LogsParse => EmitsFrom(b))
    /\ \A h \in Blocks : <>(LogsParse /\ Mine(1, h) => txs[1][h] > 0)
    /\ InBatch ~> (state[1].tag = "Wait")

\* C22 witness: the head grew between two batches, the second one holds a
\* log naming the node, its withdraw is sent and the last block emitted.
C22_Witness ==
    /\ LogsParse
    /\ Len(batches[1]) = 2
    /\ Mine(1, MaxBlock) /\ txs[1][MaxBlock] > 0
    /\ item[1] = Some(MaxBlock)

====
